---- MODULE Spec2Model ----
(***************************************************************************)
(* A model of convert_rmd_to_iniz.py: the conversion of the OpenMRS        *)
(* Reference Metadata module's concept XML files into Metadata Sharing     *)
(* packages (header.xml + metadata.xml) and Initializer CSV files.         *)
(*                                                                         *)
(* Representation.                                                         *)
(*  - A Python str is a finite sequence of tokens: "" is <<>>, "u1;u2" is   *)
(*    <<"u1", ";", "u2">>.  The character ";" is always a token of its     *)
(*    own, so that rstrip(";") removes every trailing ";" token, and       *)
(*    concatenation is \o.                                                 *)
(*  - A Python dict (insertion ordered) is a sequence of <<key, value>>    *)
(*    pairs with pairwise distinct keys.                                   *)
(*  - A parsed XML file is the sequence of its elements in document order, *)
(*    each [tag, attrib]; attrib is a dict from attribute name to str.     *)
(*  - A built ElementTree document is the sequence of its elements in      *)
(*    document order (the order in which the code creates them, since      *)
(*    every SubElement call appends below the element created last on      *)
(*    that branch), each with the index of its parent.                     *)
(***************************************************************************)
EXTENDS Integers, Sequences, FiniteSets, TLC

VARIABLES
    pc,                     \* position of main(): see Init and the actions
    namelist,               \* rmd_omod_zip.namelist()
    use_pre_2x,             \* main: use_pre_2x
    mds_jar_filenames,      \* main: mds_jar_filenames
    concept_xml_filenames,  \* main: concept_xml_filenames
    scratch,                \* files present under output_path
    mds_output,             \* files present under mds_output_path
    csv_output,             \* files present under concepts_output_path
    ref_dicts,              \* main: ref_dicts
    idx,                    \* position of the running for-loop over file names
    batch,                  \* locals of the running create_concept_metadata_mds_package iteration
    ordered_xml_filenames,  \* convert_concept_xml_to_csv: ordered_xml_filenames
    conv                    \* locals of the running convert_concept_xml_to_csv iteration

vars == <<pc, namelist, use_pre_2x, mds_jar_filenames, concept_xml_filenames,
          scratch, mds_output, csv_output, ref_dicts, idx, batch,
          ordered_xml_filenames, conv>>

(***************************************************************************)
(* Python values                                                           *)
(***************************************************************************)
\* Python's None, where a str is expected (Element.get of a missing attribute,
\* Element.text / Element.tail never assigned).
None == <<"\\None">>

\* A one-atom str.
S(atom) == <<atom>>

\* str(n) for an int n.
Str(n) == <<ToString(n)>>

RECURSIVE Rstrip(_, _)
\* s.rstrip(ch): s without its trailing run of ch.
Rstrip(s, ch) ==
    IF s # <<>> /\ s[Len(s)] = ch THEN Rstrip(SubSeq(s, 1, Len(s) - 1), ch) ELSE s

\* dict(): the empty dict.
EmptyDict == <<>>

\* d.keys(), in insertion order.
Keys(d) == [i \in 1..Len(d) |-> d[i][1]]

KeySet(d) == {d[i][1] : i \in 1..Len(d)}

\* k in d.keys()
Has(d, k) == \E i \in 1..Len(d) : d[i][1] = k

\* d[k], for a key that is present.
Get(d, k) == d[CHOOSE i \in 1..Len(d) : d[i][1] = k][2]

\* d[k] = v: an existing key keeps its position, a new one goes last.
Put(d, k, v) ==
    IF Has(d, k)
    THEN [i \in 1..Len(d) |-> IF d[i][1] = k THEN <<k, v>> ELSE d[i]]
    ELSE Append(d, <<k, v>>)

RECURSIVE Update(_, _)
\* d.update(e)
Update(d, e) ==
    IF e = <<>> THEN d ELSE Update(Put(d, e[1][1], e[1][2]), Tail(e))

\* el.get(name): the attribute's value, or None.
ElGet(el, name) == IF Has(el.attrib, name) THEN Get(el.attrib, name) ELSE None

\* tree.findall(tag): the root's children with that tag, in document order.
FindAll(tree, tag) == SelectSeq(tree, LAMBDA el : el.tag = tag)

(***************************************************************************)
(* File names and the regular expressions of main()                        *)
(***************************************************************************)
\* Tokens matched by [A-Za-z_]+ and by [0-9]+ among those the archives use.
AlphaTokens == {"Reference_Application_", "Concepts", "Diagnoses", "Order_Entry_",
                "and_Allergies_Concepts", "Numeric_Concepts", "Drugs"}
DigitTokens == {"20", "13", "17", "4"}

EndsWith(f, suffix) ==
    /\ Len(f) >= Len(suffix)
    /\ SubSeq(f, Len(f) - Len(suffix) + 1, Len(f)) = suffix

StartsWith(f, prefix) ==
    /\ Len(f) >= Len(prefix)
    /\ SubSeq(f, 1, Len(prefix)) = prefix

\* regexes["mds_jar"]: .*referencemetadata-api-.*.jar$
re_mds_jar(f) ==
    /\ \E i \in 1..Len(f) : f[i] = "referencemetadata-api-"
    /\ EndsWith(f, <<".jar">>)

\* regexes["mds_packages"]: .*\.zip$
re_mds_packages(f) == EndsWith(f, <<".zip">>)

\* regexes["concept_xml"]: ^Reference_Application_.*.xml$
re_concept_xml(f) ==
    StartsWith(f, <<"Reference_Application_">>) /\ EndsWith(f, <<".xml">>)

\* regexes["numeric_concepts"]: ^Reference_Application_Numeric_Concepts-.*.xml$
re_numeric_concepts(f) ==
    /\ StartsWith(f, <<"Reference_Application_", "Numeric_Concepts", "-">>)
    /\ EndsWith(f, <<".xml">>)

\* regexes["pre_2x"]: ^Reference_Application_Numeric_Concepts-.*-pre2.x.xml$
re_pre_2x(f) ==
    /\ StartsWith(f, <<"Reference_Application_", "Numeric_Concepts", "-">>)
    /\ Len(f) >= 5
    /\ EndsWith(f, <<"-pre2.x", ".xml">>)

\* regexes["post_2x"] given the pattern of regexes["pre_2x"].
Mut_re_post_2x(f) ==
    /\ StartsWith(f, <<"Reference_Application_", "Numeric_Concepts", "-">>)
    /\ Len(f) >= 5
    /\ EndsWith(f, <<"-pre2.x", ".xml">>)

\* regexes["post_2x"]: ^Reference_Application_Numeric_Concepts-.*-2.x.xml$
re_post_2x(f) ==
    /\ StartsWith(f, <<"Reference_Application_", "Numeric_Concepts", "-">>)
    /\ Len(f) >= 5
    /\ EndsWith(f, <<"-2.x", ".xml">>)

\* regexes["concepts_filename"]: ^([A-Za-z_]+)-([0-9]+).xml$
re_concepts_filename(f) ==
    /\ Len(f) >= 4
    /\ \A i \in 1..(Len(f) - 3) : f[i] \in AlphaTokens
    /\ f[Len(f) - 2] = "-"
    /\ f[Len(f) - 1] \in DigitTokens
    /\ f[Len(f)] = ".xml"

\* matches.group(1) and matches.group(2) of regexes["concepts_filename"].
FilenameGroup1(f) == SubSeq(f, 1, Len(f) - 3)
FilenameGroup2(f) == <<f[Len(f) - 1]>>

\* regexes["main_concepts_file"] and concept_processing_order[0]:
\* ^Reference_Application_Concepts-.*.xml$
re_main_concepts_file(f) ==
    /\ StartsWith(f, <<"Reference_Application_", "Concepts", "-">>)
    /\ EndsWith(f, <<".xml">>)

\* concept_processing_order[1]: ^Reference_Application_Diagnoses-.*.xml$
re_diagnoses(f) ==
    /\ StartsWith(f, <<"Reference_Application_", "Diagnoses", "-">>)
    /\ EndsWith(f, <<".xml">>)

\* concept_processing_order[2]: ^Reference_Application_Order_Entry_.*.xml$
re_order_entry(f) ==
    /\ StartsWith(f, <<"Reference_Application_", "Order_Entry_">>)
    /\ EndsWith(f, <<".xml">>)

\* The number of patterns in concept_processing_order.
NumPriorities == 3

\* concept_processing_order[p].search(f)
PriorityMatch(p, f) ==
    CASE p = 1 -> re_main_concepts_file(f)
      [] p = 2 -> re_diagnoses(f)
      [] p = 3 -> re_order_entry(f)

\* tok.replace("_", " ") for the atoms of a file name.
ReplaceUnderscore(tok) ==
    CASE tok = "Reference_Application_" -> "Reference Application "
      [] tok = "Order_Entry_" -> "Order Entry "
      [] tok = "and_Allergies_Concepts" -> "and Allergies Concepts"
      [] tok = "Numeric_Concepts" -> "Numeric Concepts"
      [] OTHER -> tok

\* s.replace("_", " ")
ReplaceUnderscores(s) == [i \in 1..Len(s) |-> ReplaceUnderscore(s[i])]

(***************************************************************************)
(* create_concept_metadata_mds_package: loading the reference records      *)
(***************************************************************************)
\* The guard of lines 418-421 left out: no element is found in the dictionary.
MutAlreadyInRefDicts(dicts, kind, id) == FALSE

\* The guard of lines 418-421 (and 425-428, 432-435, 446-449): the element's
\* surrogate id is already a key of the running dictionary of its kind.
AlreadyInRefDicts(dicts, kind, id) ==
    Has(dicts, kind) /\ Has(Get(dicts, kind), id)

RECURSIVE LoadNew(_, _, _, _, _)
\* One of the loops at lines 417-436 and 445-450 over els = tree.findall(tag):
\* an element already in the dictionary is skipped, any other is stored under
\* its uuid (a later element with the same uuid replaces the stored one).
LoadNew(els, kind, id_attr, dicts, acc) ==
    IF els = <<>> THEN acc
    ELSE LoadNew(Tail(els), kind, id_attr, dicts,
                 IF AlreadyInRefDicts(dicts, kind, ElGet(Head(els), id_attr))
                 THEN acc
                 ELSE Put(acc, ElGet(Head(els), "uuid"), Head(els).attrib))

RECURSIVE LoadAll(_, _)
\* The loop at lines 438-443 (its dictionary check is commented out).
LoadAll(els, acc) ==
    IF els = <<>> THEN acc
    ELSE LoadAll(Tail(els), Put(acc, ElGet(Head(els), "uuid"), Head(els).attrib))

\* Lines 402-450: the five record dicts loaded from one parsed file.
LoadReferenceRecords(tree, dicts) ==
    [datatypes   |-> LoadNew(FindAll(tree, "concept_datatype"), "Datatype",
                             "concept_datatype_id", dicts, EmptyDict),
     classes     |-> LoadNew(FindAll(tree, "concept_class"), "Class",
                             "concept_class_id", dicts, EmptyDict),
     map_types   |-> LoadNew(FindAll(tree, "concept_map_type"), "MapType",
                             "concept_map_type_id", dicts, EmptyDict),
     ref_sources |-> LoadAll(FindAll(tree, "concept_reference_source"), EmptyDict),
     ref_terms   |-> LoadNew(FindAll(tree, "concept_reference_term"), "ReferenceTerm",
                             "concept_reference_term_id", dicts, EmptyDict)]

(***************************************************************************)
(* build_ref_dicts / build_ref_dict_items                                  *)
(*                                                                         *)
(* Both return [dicts, ok]: ok = FALSE when a subscript raised KeyError,   *)
(* and dicts is then the dictionary as the exception left it.             *)
(***************************************************************************)
\* dict_metadata of build_ref_dicts.
dict_metadata(r) ==
    << <<r.datatypes, "Datatype", "concept_datatype_id", <<"name">> >>,
       <<r.classes, "Class", "concept_class_id", <<"name">> >>,
       <<r.map_types, "MapType", "concept_map_type_id", <<"name">> >>,
       <<r.ref_sources, "Source", "concept_source_id", <<"name">> >>,
       <<r.ref_terms, "ReferenceTerm", "concept_reference_term_id",
         <<"concept_source_id", "code">> >> >>

\* Lines 282-287 with a blank in place of the name of a source that the
\* dictionary lacks.
MutRefDictValue(dicts, dict_item, rec) ==
    IF dict_item[2] = "ReferenceTerm"
    THEN [ok |-> TRUE,
          value |-> <<":">> \o (IF Has(rec, dict_item[4][2]) THEN Get(rec, dict_item[4][2])
                                ELSE <<>>)]
    ELSE IF Has(rec, dict_item[4][1])
         THEN [ok |-> TRUE, value |-> Get(rec, dict_item[4][1])]
         ELSE [ok |-> FALSE, value |-> None]

\* The value stored for one record (the right-hand sides of lines 282-287),
\* as [ok, value]; the right-hand side is evaluated before the target.
RefDictValue(dicts, dict_item, rec) ==
    IF dict_item[2] = "ReferenceTerm"
    THEN IF /\ Has(rec, dict_item[4][1])
            /\ Has(Get(dicts, "Source"), Get(rec, dict_item[4][1]))
            /\ Has(rec, dict_item[4][2])
         THEN [ok |-> TRUE,
               value |-> Get(Get(dicts, "Source"), Get(rec, dict_item[4][1]))
                         \o <<":">> \o Get(rec, dict_item[4][2])]
         ELSE [ok |-> FALSE, value |-> None]
    ELSE IF Has(rec, dict_item[4][1])
         THEN [ok |-> TRUE, value |-> Get(rec, dict_item[4][1])]
         ELSE [ok |-> FALSE, value |-> None]

RECURSIVE build_ref_dict_items(_, _, _)
\* Lines 279-287, from the i-th record of dict_item[0] on.
build_ref_dict_items(st, dict_item, i) ==
    IF ~st.ok \/ i > Len(dict_item[1]) THEN st
    ELSE LET rec == dict_item[1][i][2]
             v == RefDictValue(st.dicts, dict_item, rec)
         IN IF v.ok /\ Has(rec, dict_item[3])
            THEN build_ref_dict_items(
                     [dicts |-> Put(st.dicts, dict_item[2],
                                    Put(Get(st.dicts, dict_item[2]),
                                        Get(rec, dict_item[3]), v.value)),
                      ok |-> TRUE],
                     dict_item, i + 1)
            ELSE [dicts |-> st.dicts, ok |-> FALSE]

RECURSIVE build_ref_dicts_from(_, _, _)
\* The loop of lines 298-301 from the k-th entry of dict_metadata on.
build_ref_dicts_from(st, meta, k) ==
    IF ~st.ok \/ k > Len(meta) THEN st
    ELSE LET kind == meta[k][2]
             d1 == IF Has(st.dicts, kind) THEN st.dicts
                   ELSE Put(st.dicts, kind, EmptyDict)
         IN build_ref_dicts_from(
                build_ref_dict_items([dicts |-> d1, ok |-> TRUE], meta[k], 1),
                meta, k + 1)

\* build_ref_dicts(ref_dicts, datatypes, classes, map_types, ref_sources, ref_terms)
build_ref_dicts(dicts, r) ==
    build_ref_dicts_from([dicts |-> dicts, ok |-> TRUE], dict_metadata(r), 1)

(***************************************************************************)
(* ElementTree documents                                                   *)
(***************************************************************************)
\* et.Element(tag) / et.SubElement(parent, tag) followed by the set() calls
\* and the text assignment made on it; parent = 0 for the root.
Element(tag, parent, attrib, text) ==
    [tag |-> tag, parent |-> parent, attrib |-> attrib, text |-> text, tail |-> None]

\* The values that uuid.uuid4() and datetime.now() produce are generated
\* afresh on every call; they are stood for by these atoms.
GeneratedUuid == S("<uuid4>")
GeneratedNow == S("<now>")

\* module_list of build_concept_metadata_mds_header_xml.
module_list ==
    << <<"calculation", "1.2">>, <<"legacyui", "1.5.0">>,
       <<"referenceapplication", "2.9.0">>, <<"attachments", "2.1.0">>,
       <<"metadatadeploy", "1.11.0">>, <<"fhir", "1.18.0">>,
       <<"appointmentscheduling", "1.10.0">>, <<"atlas", "2.2">>,
       <<"metadatasharing", "1.5.0">>,
       <<"appointmentschedulingui", "1.7.0">>,
       <<"allergyui", "1.8.1">>, <<"formentryapp", "1.4.2">>,
       <<"chartsearch", "2.1.0">>, <<"providermanagement", "2.10.0">>,
       <<"htmlwidgets", "1.10.0">>, <<"dataexchange", "1.3.3">>,
       <<"referencedemodata", "1.4.4">>,
       <<"addresshierarchy", "2.11.0">>, <<"reportingrest", "1.10.0">>,
       <<"uiframework", "3.15.0">>, <<"reportingui", "1.6.0">>,
       <<"referencemetadata", "2.9.0">>, <<"event", "2.7.0">>,
       <<"uicommons", "2.6.1">>, <<"reporting", "1.17.0">>,
       <<"emrapi", "1.27.0">>, <<"registrationapp", "1.13.0">>,
       <<"idgen", "4.5.0">>, <<"htmlformentryui", "1.7.0">>,
       <<"htmlformentry", "3.8.0">>, <<"appframework", "2.13.0">>,
       <<"reportingcompatibility", "2.0.6">>, <<"uilibrary", "2.0.6">>,
       <<"webservices.rest", "2.24.0.573609">>, <<"adminui", "1.2.4">>,
       <<"registrationcore", "1.8.0">>, <<"owa", "1.10.0">>,
       <<"metadatamapping", "1.3.4">>, <<"coreapps", "1.21.0">>,
       <<"appui", "1.9.0">>, <<"serialization.xstream", "0.2.14">> >>

RECURSIVE ModuleEntries(_, _, _)
\* Lines 161-166: entry / string / string below modules_el, from the m-th module on.
ModuleEntries(doc, modules_el, m) ==
    IF m > Len(module_list) THEN doc
    ELSE LET entry_el == Len(doc) + 1
         IN ModuleEntries(
                doc \o << Element("entry", modules_el, EmptyDict, None),
                          Element("string", entry_el, EmptyDict, S(module_list[m][1])),
                          Element("string", entry_el, EmptyDict, S(module_list[m][2])) >>,
                modules_el, m + 1)

\* "org.openmrs." + item_list[1], the tag of a metadata.xml item (line 236)
\* and the classname of a header.xml item (line 202).
OrgOpenmrs(classname) ==
    CASE classname = "ConceptDatatype" -> "org.openmrs.ConceptDatatype"
      [] classname = "ConceptClass" -> "org.openmrs.ConceptClass"
      [] classname = "ConceptMapType" -> "org.openmrs.ConceptMapType"
      [] classname = "ConceptSource" -> "org.openmrs.ConceptSource"
      [] classname = "ConceptReferenceTerm" -> "org.openmrs.ConceptReferenceTerm"

\* item_metadata of build_concept_metadata_mds_header_xml.
header_item_metadata(r) ==
    << <<r.datatypes, "concept_datatype_id", "ConceptDatatype", 0>>,
       <<r.classes, "concept_class_id", "ConceptClass", 0>>,
       <<r.map_types, "concept_map_type_id", "ConceptMapType", 1>>,
       <<r.ref_sources, "concept_source_id", "ConceptSource", 0>>,
       <<r.ref_terms, "concept_reference_term_id", "ConceptReferenceTerm", 1>> >>

\* Lines 190-192: the value of date_changed_field used for this record and
\* carried to the next one.
NextDateChangedField(field, item_list, rec) ==
    IF item_list[4] = 0 \/ ~Has(rec, field) THEN "date_created" ELSE field

\* Line 197 and line 205 dropped: the counter is not advanced after an id is used.
MutNextId(id_cnt) == id_cnt

\* id_cnt += 1
NextId(id_cnt) == id_cnt + 1

RECURSIVE build_concept_metadata_mds_header_xml_items(_, _, _, _)
\* Lines 186-211, from the i-th record of item_list[0] on.  st is
\* [doc, id_cnt, field, ok]; ok = FALSE when a subscript raised KeyError.
build_concept_metadata_mds_header_xml_items(st, items_el, item_list, i) ==
    IF ~st.ok \/ i > Len(item_list[1]) THEN st
    ELSE LET key == item_list[1][i][1]
             rec == item_list[1][i][2]
             field == NextDateChangedField(st.field, item_list, rec)
             item_el == Len(st.doc) + 1
             id1 == NextId(st.id_cnt)
         IN IF Has(rec, item_list[2]) /\ Has(rec, field)
            THEN build_concept_metadata_mds_header_xml_items(
                     [doc |-> st.doc \o
                          << Element("org.openmrs.module.metadatasharing.Item", items_el,
                                     << <<"id", Str(st.id_cnt)>>, <<"uuid", key>> >>, None),
                             Element("id", item_el, EmptyDict, Get(rec, item_list[2])),
                             Element("classname", item_el, EmptyDict,
                                     S(OrgOpenmrs(item_list[3]))),
                             Element("dateChanged", item_el, << <<"id", Str(id1)>> >>,
                                     Get(rec, field)),
                             Element("retired", item_el, EmptyDict,
                                     IF Has(rec, "retired") THEN Get(rec, "retired")
                                     ELSE None) >>,
                      id_cnt |-> NextId(id1),
                      field |-> field,
                      ok |-> TRUE],
                     items_el, item_list, i + 1)
            ELSE [st EXCEPT !.ok = FALSE]

RECURSIVE HeaderItemLists(_, _, _, _)
\* Lines 177-179, from the k-th entry of item_metadata on; every call of
\* build_concept_metadata_mds_header_xml_items starts with
\* date_changed_field = "date_changed" (line 187).
HeaderItemLists(st, items_el, meta, k) ==
    IF ~st.ok \/ k > Len(meta) THEN st
    ELSE HeaderItemLists(
             build_concept_metadata_mds_header_xml_items(
                 [st EXCEPT !.field = "date_changed"], items_el, meta[k], 1),
             items_el, meta, k + 1)

\* build_concept_metadata_mds_header_xml(name, desc, version, datatypes, ...):
\* [doc, ok].
build_concept_metadata_mds_header_xml(name, desc, version, r) ==
    LET id_package == 1
        id_dateCreated == NextId(id_package)
        id_modules == NextId(id_dateCreated)
        id_items == NextId(id_modules)
        head == << Element("package", 0,
                           << <<"id", Str(id_package)>>, <<"uuid", GeneratedUuid>> >>, None),
                   Element("dateCreated", 1, << <<"id", Str(id_dateCreated)>> >>,
                           GeneratedNow),
                   Element("name", 1, EmptyDict, name),
                   Element("description", 1, EmptyDict, desc),
                   Element("openmrsVersion", 1, EmptyDict, S("2.1.4  Build 2cb839")),
                   Element("version", 1, EmptyDict, version),
                   Element("groupUuid", 1, EmptyDict, GeneratedUuid),
                   Element("modules", 1, << <<"id", Str(id_modules)>> >>, None) >>
        with_modules == ModuleEntries(head, Len(head), 1)
        items_el == Len(with_modules) + 1
        with_items_el == Append(with_modules,
                                Element("items", 1,
                                        << <<"class", S("linked-hash-set")>>,
                                           <<"id", Str(id_items)>> >>, None))
        st == HeaderItemLists([doc |-> with_items_el, id_cnt |-> NextId(id_items),
                               field |-> "date_changed", ok |-> TRUE],
                              items_el, header_item_metadata(r), 1)
    IN [doc |-> Append(st.doc,
                       Element("relatedItems", 1,
                               << <<"class", S("linked-hash-set")>>,
                                  <<"id", Str(st.id_cnt)>> >>, None)),
        ok |-> st.ok]

\* camel_case(st) for the attribute names of the concept XML files:
\* st.title() capitalises the letter after every "_", the "_" are dropped and
\* the first letter is lowered again.
camel_case(st) ==
    CASE st = "concept_datatype_id" -> "conceptDatatypeId"
      [] st = "concept_class_id" -> "conceptClassId"
      [] st = "concept_map_type_id" -> "conceptMapTypeId"
      [] st = "concept_source_id" -> "conceptSourceId"
      [] st = "concept_reference_term_id" -> "conceptReferenceTermId"
      [] st = "date_created" -> "dateCreated"
      [] st = "date_changed" -> "dateChanged"
      [] st = "hl7_code" -> "hl7Code"
      [] OTHER -> st

\* item_metadata of build_concept_metadata_mds_metadata_xml.
metadata_item_metadata(r) ==
    << <<r.datatypes, "ConceptDatatype">>,
       <<r.classes, "ConceptClass">>,
       <<r.map_types, "ConceptMapType">>,
       <<r.ref_sources, "ConceptSource">>,
       <<r.ref_terms, "ConceptReferenceTerm", r.ref_sources>> >>

RECURSIVE SourceChildren(_, _, _, _)
\* Lines 260-267: one child of src_el per attribute of the source but uuid.
SourceChildren(doc, src_el, src, a) ==
    IF a > Len(src) THEN doc
    ELSE SourceChildren(
             IF src[a][1] = "uuid" THEN doc
             ELSE Append(doc, Element(camel_case(src[a][1]), src_el, EmptyDict, src[a][2])),
             src_el, src, a + 1)

\* The first src_key of lines 247-249 whose concept_source_id equals val, or 0.
\* (Every record of ref_sources has a concept_source_id here: build_ref_dicts
\* read it at line 286 before any document is built.)
FirstSourceWith(sources, val) ==
    LET hits == {n \in 1..Len(sources) :
                    /\ Has(sources[n][2], "concept_source_id")
                    /\ Get(sources[n][2], "concept_source_id") = val}
    IN IF hits = {} THEN 0 ELSE CHOOSE n \in hits : \A m \in hits : n <= m

\* Lines 245-273: the conceptSource child of a ConceptReferenceTerm element.
ConceptSourceChild(st, item_el, sources, val) ==
    IF ~Has(st.cache, val)
    THEN LET n == FirstSourceWith(sources, val)
         IN IF n = 0 THEN st
            ELSE IF ~Has(sources[n][2], "uuid") THEN [st EXCEPT !.ok = FALSE]
            ELSE [doc |-> SourceChildren(
                              Append(st.doc,
                                     Element("conceptSource", item_el,
                                             << <<"id", Str(st.id_cnt)>>,
                                                <<"resolves-to", S("org.openmrs.ConceptSource")>>,
                                                <<"uuid", Get(sources[n][2], "uuid")>> >>,
                                             None)),
                              Len(st.doc) + 1, sources[n][2], 1),
                  id_cnt |-> NextId(st.id_cnt),
                  cache |-> Put(st.cache, val, st.id_cnt),
                  ok |-> TRUE]
    ELSE [st EXCEPT !.doc = Append(st.doc,
                                   Element("conceptSource", item_el,
                                           << <<"reference", Str(Get(st.cache, val))>> >>,
                                           None))]

RECURSIVE MetadataItemChildren(_, _, _, _, _)
\* Lines 240-275 for one record, from its a-th attribute on.
MetadataItemChildren(st, item_el, item_list, rec, a) ==
    IF ~st.ok \/ a > Len(rec) THEN st
    ELSE LET attrib_key == rec[a][1]
             val == rec[a][2]
             is_term == item_list[2] = "ConceptReferenceTerm"
         IN IF is_term /\ attrib_key = "uuid"
            THEN MetadataItemChildren(st, item_el, item_list, rec, a + 1)
            ELSE LET st1 == IF is_term /\ attrib_key = "concept_source_id"
                            THEN ConceptSourceChild(st, item_el, item_list[3], val)
                            ELSE st
                 IN MetadataItemChildren(
                        [st1 EXCEPT !.doc = Append(st1.doc,
                                                   Element(camel_case(attrib_key), item_el,
                                                           EmptyDict, val))],
                        item_el, item_list, rec, a + 1)

RECURSIVE build_concept_metadata_mds_metadata_xml_items(_, _, _, _)
\* Lines 231-277, from the i-th record of item_list[0] on.  st is
\* [doc, id_cnt, cache, ok]; cache is concept_source_ids.
build_concept_metadata_mds_metadata_xml_items(st, list_el, item_list, i) ==
    IF ~st.ok \/ i > Len(item_list[1]) THEN st
    ELSE LET key == item_list[1][i][1]
             rec == item_list[1][i][2]
             item_el == Len(st.doc) + 1
         IN build_concept_metadata_mds_metadata_xml_items(
                MetadataItemChildren(
                    [st EXCEPT
                        !.doc = Append(st.doc,
                                       Element(OrgOpenmrs(item_list[2]), list_el,
                                               << <<"id", Str(st.id_cnt)>>, <<"uuid", key>> >>,
                                               None)),
                        !.id_cnt = NextId(st.id_cnt)],
                    item_el, item_list, rec, 1),
                list_el, item_list, i + 1)

RECURSIVE MetadataItemLists(_, _, _, _)
\* Lines 226-228, from the k-th entry of item_metadata on; concept_source_ids
\* is created empty by every call (line 232).
MetadataItemLists(st, list_el, meta, k) ==
    IF ~st.ok \/ k > Len(meta) THEN st
    ELSE MetadataItemLists(
             build_concept_metadata_mds_metadata_xml_items(
                 [st EXCEPT !.cache = EmptyDict], list_el, meta[k], 1),
             list_el, meta, k + 1)

\* build_concept_metadata_mds_metadata_xml(datatypes, ...): [doc, ok].
build_concept_metadata_mds_metadata_xml(r) ==
    LET id_list == 1
        st == MetadataItemLists(
                  [doc |-> << Element("list", 0, << <<"id", Str(id_list)>> >>, None) >>,
                   id_cnt |-> NextId(id_list), cache |-> EmptyDict, ok |-> TRUE],
                  1, metadata_item_metadata(r), 1)
    IN [doc |-> st.doc, ok |-> st.ok]

(***************************************************************************)
(* xml_indent                                                              *)
(***************************************************************************)
RECURSIVE Level(_, _)
\* The nesting level at which xml_indent reaches element n (0 for the root).
Level(doc, n) == IF doc[n].parent = 0 THEN 0 ELSE 1 + Level(doc, doc[n].parent)

RECURSIVE Spaces(_)
\* level * "  "
Spaces(level) == IF level = 0 THEN <<>> ELSE <<"  ">> \o Spaces(level - 1)

\* i = "\n" + level * "  "
Indent(level) == <<"\n">> \o Spaces(level)

\* not s or not s.strip()
Blank(s) == s = None \/ \A c \in 1..Len(s) : s[c] \in {"\n", "  "}

\* len(elem) > 0: in document order the first child of an element follows it.
HasChildren(doc, n) == n < Len(doc) /\ doc[n + 1].parent = n

\* elem is the last child of its parent: the element still bound to the loop
\* variable when `for elem in elem` ends (line 545).  In document order a
\* leaf is followed at once by its next sibling, when it has one.
IsLastChild(doc, n) ==
    /\ doc[n].parent # 0
    /\ IF HasChildren(doc, n)
       THEN \A m \in (n + 1)..Len(doc) : doc[m].parent # doc[n].parent
       ELSE n = Len(doc) \/ doc[n + 1].parent # doc[n].parent

\* xml_indent(elem) on the root of doc.  An element with children gets the
\* indentation of its children as text (541-542) and that of its own level as
\* tail (543-544); a leaf below the root gets its own level's (550-551); the
\* last child of every element is then given its parent's (547-548), its tail
\* being blank by then.  No element has a tail before the call.
xml_indent(doc) ==
    [n \in 1..Len(doc) |->
        LET level == Level(doc, n)
            kids == HasChildren(doc, n)
        IN [doc[n] EXCEPT
               !.text = IF kids /\ Blank(doc[n].text) THEN Indent(level + 1) ELSE doc[n].text,
               !.tail = IF IsLastChild(doc, n) THEN Indent(level - 1)
                        ELSE IF kids \/ level # 0 THEN Indent(level)
                        ELSE doc[n].tail]]

\* et.tostring(doc) raises TypeError when an attribute value is None.
Serializable(doc) ==
    \A n \in 1..Len(doc) : \A a \in 1..Len(doc[n].attrib) : doc[n].attrib[a][2] # None

(***************************************************************************)
(* main(): the state after option parsing, and the steps up to the         *)
(* extraction of the concept XML files                                     *)
(***************************************************************************)
\* The locals of create_concept_metadata_mds_package before its first iteration.
NoBatch ==
    [xml_filename |-> <<>>, tree |-> <<>>,
     datatypes |-> EmptyDict, classes |-> EmptyDict, map_types |-> EmptyDict,
     ref_sources |-> EmptyDict, ref_terms |-> EmptyDict,
     header_xml_content |-> <<>>, metadata_xml_content |-> <<>>]

\* The locals of convert_concept_xml_to_csv before its first iteration.
NoConv ==
    [xml_filename |-> <<>>, tree |-> <<>>, numeric_concepts |-> <<>>,
     numeric_tree |-> <<>>, concepts |-> EmptyDict, descriptions |-> EmptyDict, answers |-> EmptyDict,
     names |-> EmptyDict, ref_maps |-> EmptyDict, sets |-> EmptyDict,
     concept_csv |-> EmptyDict, header_data |-> <<>>, rows |-> <<>>]

\* main() at line 630, for an archive with the given entries and the era
\* flag set by the options.
InitWith(archives, flags) ==
    /\ pc = "extract_filenames_and_mds_jar"
    /\ namelist \in archives
    /\ use_pre_2x \in flags
    /\ mds_jar_filenames = <<>>
    /\ concept_xml_filenames = <<>>
    /\ scratch = {}
    /\ mds_output = {}
    /\ csv_output = {}
    /\ ref_dicts = EmptyDict
    /\ idx = 0
    /\ batch = NoBatch
    /\ ordered_xml_filenames = <<>>
    /\ conv = NoConv

Range(s) == {s[i] : i \in 1..Len(s)}

\* extract_filenames_and_mds_jar: line 498 raises IndexError for an archive
\* without the support library.
ExtractFilenamesAndMdsJar ==
    /\ pc = "extract_filenames_and_mds_jar"
    /\ LET jars == mds_jar_filenames \o SelectSeq(namelist, re_mds_jar)
           temp_xml_filenames == SelectSeq(namelist, re_concept_xml)
       IN /\ mds_jar_filenames' = jars
          /\ IF jars = <<>>
             THEN /\ pc' = "error"
                  /\ UNCHANGED <<concept_xml_filenames, scratch>>
             ELSE /\ pc' = "extract_mds_packages"
                  /\ scratch' = scratch \cup {jars[1]}
                  /\ concept_xml_filenames' =
                        concept_xml_filenames \o
                        (IF use_pre_2x = 1
                         THEN SelectSeq(temp_xml_filenames, LAMBDA i : ~re_post_2x(i))
                         ELSE SelectSeq(temp_xml_filenames, LAMBDA i : ~re_pre_2x(i)))
    /\ UNCHANGED <<namelist, use_pre_2x, mds_output, csv_output, ref_dicts, idx, batch,
                   ordered_xml_filenames, conv>>

\* extract_mds_packages, for a support library with the given entries: its
\* .zip entries are extracted and the library is removed.
ExtractMdsPackages(jar_namelist) ==
    /\ pc = "extract_mds_packages"
    /\ pc' = "extract_concept_xml_files"
    /\ mds_output' = mds_output \cup Range(SelectSeq(jar_namelist, re_mds_packages))
    /\ scratch' = scratch \ {mds_jar_filenames[1]}
    /\ UNCHANGED <<namelist, use_pre_2x, mds_jar_filenames, concept_xml_filenames,
                   csv_output, ref_dicts, idx, batch, ordered_xml_filenames, conv>>

\* extract_concept_xml_files, then the call of create_concept_metadata_mds_package.
ExtractConceptXmlFiles ==
    /\ pc = "extract_concept_xml_files"
    /\ pc' = "create_concept_metadata_mds_package"
    /\ scratch' = scratch \cup Range(concept_xml_filenames)
    /\ idx' = 1
    /\ UNCHANGED <<namelist, use_pre_2x, mds_jar_filenames, concept_xml_filenames,
                   mds_output, csv_output, ref_dicts, batch, ordered_xml_filenames, conv>>

(***************************************************************************)
(* create_concept_metadata_mds_package: one iteration of its loop          *)
(***************************************************************************)
\* Lines 399-400: a numeric-concepts file is passed over.
PackageSkipNumeric ==
    /\ pc = "create_concept_metadata_mds_package"
    /\ idx <= Len(concept_xml_filenames)
    /\ re_numeric_concepts(concept_xml_filenames[idx])
    /\ idx' = idx + 1
    /\ UNCHANGED <<pc, namelist, use_pre_2x, mds_jar_filenames, concept_xml_filenames,
                   scratch, mds_output, csv_output, ref_dicts, batch,
                   ordered_xml_filenames, conv>>

\* Lines 402-477 for the file concept_xml_filenames[idx], whose elements of
\* the five reference kinds are `tree`.  An exception ends the run (pc = "error").
PackageBatch(tree) ==
    /\ pc = "create_concept_metadata_mds_package"
    /\ idx <= Len(concept_xml_filenames)
    /\ ~re_numeric_concepts(concept_xml_filenames[idx])
    /\ LET xml_filename == concept_xml_filenames[idx]
           name == ReplaceUnderscores(FilenameGroup1(xml_filename))
           desc == <<"Standard set of ">> \o name \o
                   <<" distributed with the Reference Application">>
           version == FilenameGroup2(xml_filename)
           mds_filename == FilenameGroup1(xml_filename) \o <<"-">> \o version \o <<".zip">>
           r == LoadReferenceRecords(tree, ref_dicts)
           dicts == build_ref_dicts(ref_dicts, r)
           header == build_concept_metadata_mds_header_xml(name, desc, version, r)
           metadata == build_concept_metadata_mds_metadata_xml(r)
           loaded == [NoBatch EXCEPT !.xml_filename = xml_filename, !.tree = tree,
                                     !.datatypes = r.datatypes, !.classes = r.classes,
                                     !.map_types = r.map_types,
                                     !.ref_sources = r.ref_sources,
                                     !.ref_terms = r.ref_terms]
       IN IF ~re_concepts_filename(xml_filename) \/ xml_filename \notin scratch
          THEN \* matches is None (line 409), or et.parse finds no file (line 415)
               /\ pc' = "error"
               /\ UNCHANGED <<ref_dicts, batch, mds_output, idx>>
          ELSE IF ~dicts.ok \/ ~header.ok \/ ~metadata.ok
          THEN \* KeyError in build_ref_dicts or in a document builder
               /\ pc' = "error"
               /\ ref_dicts' = dicts.dicts
               /\ batch' = loaded
               /\ UNCHANGED <<mds_output, idx>>
          ELSE LET built == [loaded EXCEPT
                                !.header_xml_content = xml_indent(header.doc),
                                !.metadata_xml_content = xml_indent(metadata.doc)]
               IN /\ ref_dicts' = dicts.dicts
                  /\ batch' = built
                  /\ mds_output' = mds_output \cup {mds_filename}
                  /\ IF Serializable(built.header_xml_content)
                        /\ Serializable(built.metadata_xml_content)
                     THEN pc' = pc /\ idx' = idx + 1
                     ELSE \* et.tostring raises inside the open ZipFile
                          pc' = "error" /\ idx' = idx
    /\ UNCHANGED <<namelist, use_pre_2x, mds_jar_filenames, concept_xml_filenames,
                   scratch, csv_output, ordered_xml_filenames, conv>>

(***************************************************************************)
(* build_concept_csv                                                       *)
(*                                                                         *)
(* The operators return [csv, ok]: ok = FALSE when a subscript raised      *)
(* KeyError (the run ends there and concept_csv is lost).                  *)
(***************************************************************************)
\* header_lookup (lines 24-35).
header_lookup ==
    << <<"allow_decimal", S("Allow decimals")>>,
       <<"display_precision", S("Display precision")>>,
       <<"hi_absolute", S("Absolute high")>>,
       <<"hi_critical", S("Critical high")>>,
       <<"hi_normal", S("Normal high")>>,
       <<"low_absolute", S("Absolute low")>>,
       <<"low_critical", S("Critical low")>>,
       <<"low_normal", S("Normal low")>>,
       <<"precise", S("Allow decimals")>>,
       <<"retired", S("Void/Retire")>>,
       <<"units", S("Units")>>,
       <<"uuid", S("Uuid")>> >>

\* The list literal of lines 40-43.  No comma separates "units" from
\* "hi_critical", so Python joins the two literals into one element.
PassThroughAttributes ==
    {"retired", "uuid", "hi_absolute", "unitshi_critical", "hi_normal", "low_absolute",
     "low_critical", "low_normal", "allow_decimal", "precise", "display_precision"}

\* ref_dicts[kind][id], as [ok, value].
RefDictLookup(dicts, kind, id) ==
    IF Has(dicts, kind) /\ Has(Get(dicts, kind), id)
    THEN [ok |-> TRUE, value |-> Get(Get(dicts, kind), id)]
    ELSE [ok |-> FALSE, value |-> None]

RECURSIVE ConceptRow(_, _, _, _)
\* Lines 39-53 for one concept, from its a-th attribute on; st is [row, ok].
ConceptRow(st, rec, dicts, a) ==
    IF ~st.ok \/ a > Len(rec) THEN st
    ELSE LET attrib_key == rec[a][1]
             val == rec[a][2]
         IN IF attrib_key \in PassThroughAttributes
            THEN IF Has(header_lookup, attrib_key)
                 THEN ConceptRow([st EXCEPT !.row = Put(st.row, Get(header_lookup, attrib_key),
                                                        val)],
                                 rec, dicts, a + 1)
                 ELSE [st EXCEPT !.ok = FALSE]
            ELSE IF attrib_key \in {"datatype_id", "class_id"}
            THEN LET kind == IF attrib_key = "datatype_id" THEN "Datatype" ELSE "Class"
                     column == IF attrib_key = "datatype_id" THEN S("Data type")
                               ELSE S("Data class")
                     v == RefDictLookup(dicts, kind, val)
                 IN IF v.ok
                    THEN ConceptRow([st EXCEPT !.row = Put(st.row, column, v.value)],
                                    rec, dicts, a + 1)
                    ELSE [st EXCEPT !.ok = FALSE]
            ELSE ConceptRow(st, rec, dicts, a + 1)

RECURSIVE ConceptRows(_, _, _, _)
\* Lines 37-53, from the i-th concept on; st is [csv, ok].
ConceptRows(st, concepts, dicts, i) ==
    IF ~st.ok \/ i > Len(concepts) THEN st
    ELSE LET r == ConceptRow([row |-> EmptyDict, ok |-> TRUE], concepts[i][2], dicts, 1)
         IN ConceptRows([csv |-> Put(st.csv, concepts[i][1], r.row), ok |-> r.ok],
                        concepts, dicts, i + 1)

\* concept_csv[row_key][column] = val
SetCell(csv, row_key, column, val) == Put(csv, row_key, Put(Get(csv, row_key), column, val))

\* Lines 63-66 (and 86-91, 99-105): the column is created empty when the row
\* lacks it, and val + ";" is appended to it.
AppendCell(csv, row_key, column, val) ==
    LET row == Get(csv, row_key)
        old == IF Has(row, column) THEN Get(row, column) ELSE <<>>
    IN SetCell(csv, row_key, column, old \o val \o <<";">>)

\* Lines 68-69 (and 93-95, 107-110).
RstripCell(csv, row_key, column) ==
    SetCell(csv, row_key, column, Rstrip(Get(Get(csv, row_key), column), ";"))

RECURSIVE Descriptions(_, _, _)
\* Lines 56-59, from the i-th description on.
Descriptions(st, descriptions, i) ==
    IF ~st.ok \/ i > Len(descriptions) THEN st
    ELSE LET d == descriptions[i][2]
         IN IF /\ Has(d, "concept_id") /\ Has(st.csv, Get(d, "concept_id"))
               /\ Has(d, "locale") /\ Has(d, "description")
            THEN Descriptions(
                     [st EXCEPT !.csv = SetCell(st.csv, Get(d, "concept_id"),
                                                <<"Description:">> \o Get(d, "locale"),
                                                Get(d, "description"))],
                     descriptions, i + 1)
            ELSE [st EXCEPT !.ok = FALSE]

\* Line 66 with the owner's id in place of the answer's: the uuid appended is
\* that of the concept owning the answer.
MutAnswerUuid(concepts, answer) == Get(Get(concepts, Get(answer, "concept_id")), "uuid")

\* concepts[answers[key]["answer_concept"]]["uuid"] (line 66).
AnswerUuid(concepts, answer) == Get(Get(concepts, Get(answer, "answer_concept")), "uuid")

RECURSIVE AnswersAppend(_, _, _, _)
\* Lines 62-66, from the i-th answer on.
AnswersAppend(st, answers, concepts, i) ==
    IF ~st.ok \/ i > Len(answers) THEN st
    ELSE LET a == answers[i][2]
         IN IF /\ Has(a, "concept_id") /\ Has(st.csv, Get(a, "concept_id"))
               /\ Has(a, "answer_concept") /\ Has(concepts, Get(a, "answer_concept"))
               /\ Has(Get(concepts, Get(a, "answer_concept")), "uuid")
            THEN AnswersAppend(
                     [st EXCEPT !.csv = AppendCell(st.csv, Get(a, "concept_id"), S("Answers"),
                                                   AnswerUuid(concepts, a))],
                     answers, concepts, i + 1)
            ELSE [st EXCEPT !.ok = FALSE]

RECURSIVE AnswersRstrip(_, _, _)
\* Lines 67-69, from the i-th answer on.
AnswersRstrip(csv, answers, i) ==
    IF i > Len(answers) THEN csv
    ELSE AnswersRstrip(RstripCell(csv, Get(answers[i][2], "concept_id"), S("Answers")),
                       answers, i + 1)

\* Lines 62-69.
Answers(st, answers, concepts) ==
    LET st1 == AnswersAppend(st, answers, concepts, 1)
    IN IF st1.ok THEN [st1 EXCEPT !.csv = AnswersRstrip(st1.csv, answers, 1)] ELSE st1

RECURSIVE Names(_, _, _)
\* Lines 72-82, from the i-th name on.
Names(st, names, i) ==
    IF ~st.ok \/ i > Len(names) THEN st
    ELSE LET n == names[i][2]
             prefix == IF Has(n, "concept_name_type") /\ Get(n, "concept_name_type") = S("SHORT")
                       THEN "Short name:" ELSE "Fully specified name:"
         IN IF /\ Has(n, "concept_id") /\ Has(st.csv, Get(n, "concept_id"))
               /\ Has(n, "locale") /\ Has(n, "name")
            THEN Names([st EXCEPT !.csv = SetCell(st.csv, Get(n, "concept_id"),
                                                  <<prefix>> \o Get(n, "locale"),
                                                  Get(n, "name"))],
                       names, i + 1)
            ELSE [st EXCEPT !.ok = FALSE]

RECURSIVE RefMapsAppend(_, _, _, _)
\* Lines 85-91, from the i-th reference map on.
RefMapsAppend(st, ref_maps, dicts, i) ==
    IF ~st.ok \/ i > Len(ref_maps) THEN st
    ELSE LET m == ref_maps[i][2]
             v == IF Has(m, "concept_reference_term_id")
                  THEN RefDictLookup(dicts, "ReferenceTerm",
                                     Get(m, "concept_reference_term_id"))
                  ELSE [ok |-> FALSE, value |-> None]
         IN IF Has(m, "concept_id") /\ Has(st.csv, Get(m, "concept_id")) /\ v.ok
            THEN RefMapsAppend(
                     [st EXCEPT !.csv = AppendCell(st.csv, Get(m, "concept_id"),
                                                   S("Same as mappings"), v.value)],
                     ref_maps, dicts, i + 1)
            ELSE [st EXCEPT !.ok = FALSE]

RECURSIVE RefMapsRstrip(_, _, _)
\* Lines 92-95, from the i-th reference map on.
RefMapsRstrip(csv, ref_maps, i) ==
    IF i > Len(ref_maps) THEN csv
    ELSE RefMapsRstrip(RstripCell(csv, Get(ref_maps[i][2], "concept_id"),
                                  S("Same as mappings")),
                       ref_maps, i + 1)

\* concepts[sets[key]["concept_set"]]["concept_id"] (lines 99-110), as [ok, value].
SetOwner(concepts, set) ==
    IF /\ Has(set, "concept_set") /\ Has(concepts, Get(set, "concept_set"))
       /\ Has(Get(concepts, Get(set, "concept_set")), "concept_id")
    THEN [ok |-> TRUE, value |-> Get(Get(concepts, Get(set, "concept_set")), "concept_id")]
    ELSE [ok |-> FALSE, value |-> None]

RECURSIVE SetsAppend(_, _, _, _)
\* Lines 98-105, from the i-th set on.
SetsAppend(st, sets, concepts, i) ==
    IF ~st.ok \/ i > Len(sets) THEN st
    ELSE LET s == sets[i][2]
             owner == SetOwner(concepts, s)
         IN IF /\ owner.ok /\ Has(st.csv, owner.value)
               /\ Has(s, "concept_id") /\ Has(concepts, Get(s, "concept_id"))
               /\ Has(Get(concepts, Get(s, "concept_id")), "uuid")
            THEN SetsAppend(
                     [st EXCEPT !.csv = AppendCell(st.csv, owner.value, S("Members"),
                                                   Get(Get(concepts, Get(s, "concept_id")),
                                                       "uuid"))],
                     sets, concepts, i + 1)
            ELSE [st EXCEPT !.ok = FALSE]

RECURSIVE SetsRstrip(_, _, _, _)
\* Lines 106-110, from the i-th set on.
SetsRstrip(csv, sets, concepts, i) ==
    IF i > Len(sets) THEN csv
    ELSE SetsRstrip(RstripCell(csv, SetOwner(concepts, sets[i][2]).value, S("Members")),
                    sets, concepts, i + 1)

\* build_concept_csv(concept_csv, concepts, descriptions, answers, names,
\* ref_maps, sets, ref_dicts), for concept_csv = dict(): [csv, ok].
build_concept_csv(l, dicts) ==
    LET st1 == ConceptRows([csv |-> EmptyDict, ok |-> TRUE], l.concepts, dicts, 1)
        st2 == Descriptions(st1, l.descriptions, 1)
        st3 == Answers(st2, l.answers, l.concepts)
        st4 == Names(st3, l.names, 1)
        st5 == RefMapsAppend(st4, l.ref_maps, dicts, 1)
        st6 == IF st5.ok THEN [st5 EXCEPT !.csv = RefMapsRstrip(st5.csv, l.ref_maps, 1)]
               ELSE st5
        st7 == SetsAppend(st6, l.sets, l.concepts, 1)
    IN IF st7.ok THEN [st7 EXCEPT !.csv = SetsRstrip(st7.csv, l.sets, l.concepts, 1)]
       ELSE st7

(***************************************************************************)
(* convert_concept_xml_to_csv                                              *)
(***************************************************************************)
RECURSIVE OrderedXmlFilenames(_, _)
\* Lines 310-313, from the p-th pattern of concept_processing_order on.
OrderedXmlFilenames(filenames, p) ==
    IF p > NumPriorities THEN <<>>
    ELSE SelectSeq(filenames, LAMBDA i : PriorityMatch(p, i))
         \o OrderedXmlFilenames(filenames, p + 1)

RECURSIVE LoadFirst(_, _, _)
\* One of the loops at lines 329-358 over els = tree.findall(tag): an element
\* whose key is already stored is skipped.
LoadFirst(els, key_attr, acc) ==
    IF els = <<>> THEN acc
    ELSE LoadFirst(Tail(els), key_attr,
                   IF Has(acc, ElGet(Head(els), key_attr)) THEN acc
                   ELSE Put(acc, ElGet(Head(els), key_attr), Head(els).attrib))

\* Lines 316-358: the six record dicts loaded from one parsed file.
LoadConceptRecords(tree) ==
    [concepts     |-> LoadFirst(FindAll(tree, "concept"), "concept_id", EmptyDict),
     descriptions |-> LoadFirst(FindAll(tree, "concept_description"), "uuid", EmptyDict),
     answers      |-> LoadFirst(FindAll(tree, "concept_answer"), "uuid", EmptyDict),
     names        |-> LoadFirst(FindAll(tree, "concept_name"), "uuid", EmptyDict),
     ref_maps     |-> LoadFirst(FindAll(tree, "concept_reference_map"), "uuid", EmptyDict),
     sets         |-> LoadFirst(FindAll(tree, "concept_set"), "uuid", EmptyDict)]

RECURSIVE MergeNumeric(_, _)
\* Lines 366-368 over els = numeric_tree.findall('concept_numeric'); st is
\* [concepts, ok], ok = FALSE when the concept is not loaded (KeyError).
MergeNumeric(st, els) ==
    IF ~st.ok \/ els = <<>> THEN st
    ELSE LET id == ElGet(Head(els), "concept_id")
         IN IF Has(st.concepts, id)
            THEN MergeNumeric(
                     [st EXCEPT !.concepts = Put(st.concepts, id,
                                                 Update(Get(st.concepts, id),
                                                        Head(els).attrib))],
                     Tail(els))
            ELSE [st EXCEPT !.ok = FALSE]

\* Line 379 without its test: every key of every row is appended.
MutAddHeaderKey(header_data, csv_key) == Append(header_data, csv_key)

\* Lines 379-380.
AddHeaderKey(header_data, csv_key) ==
    IF csv_key \in Range(header_data) THEN header_data ELSE Append(header_data, csv_key)

RECURSIVE AddHeaderKeys(_, _, _)
\* Lines 378-380 for one row, from its c-th key on.
AddHeaderKeys(header_data, row, c) ==
    IF c > Len(row) THEN header_data
    ELSE AddHeaderKeys(AddHeaderKey(header_data, row[c][1]), row, c + 1)

RECURSIVE HeaderOfRows(_, _, _)
\* Lines 377-380, from the i-th row of concept_csv on.
HeaderOfRows(header_data, concept_csv, i) ==
    IF i > Len(concept_csv) THEN header_data
    ELSE HeaderOfRows(AddHeaderKeys(header_data, concept_csv[i][2], 1), concept_csv, i + 1)

\* Lines 376-383.
HeaderData(concept_csv, version) ==
    HeaderOfRows(<<>>, concept_csv, 1) \o << <<"_version:">> \o version, S("_order:0") >>

\* Lines 390-392: what DictWriter writes after the header, one line per row
\* of concept_csv, a field the row lacks being written as "".
CsvRows(concept_csv, header_data) ==
    [i \in 1..Len(concept_csv) |->
        [c \in 1..Len(header_data) |->
            IF Has(concept_csv[i][2], header_data[c])
            THEN Get(concept_csv[i][2], header_data[c]) ELSE <<>>]]

\* The return of create_concept_metadata_mds_package and lines 310-313 of
\* convert_concept_xml_to_csv.
BeginConvert ==
    /\ pc = "create_concept_metadata_mds_package"
    /\ idx > Len(concept_xml_filenames)
    /\ pc' = "convert_concept_xml_to_csv"
    /\ ordered_xml_filenames' = OrderedXmlFilenames(concept_xml_filenames, 1)
    /\ idx' = 1
    /\ batch' = NoBatch
    /\ UNCHANGED <<namelist, use_pre_2x, mds_jar_filenames, concept_xml_filenames,
                   scratch, mds_output, csv_output, ref_dicts, conv>>

\* Lines 316-394 for the file ordered_xml_filenames[idx], whose concept
\* elements are `tree`; numeric_tree holds the elements of the
\* numeric-concepts file, read when the file is the main concepts file.
ConvertBatch(tree, numeric_tree) ==
    /\ pc = "convert_concept_xml_to_csv"
    /\ idx <= Len(ordered_xml_filenames)
    /\ re_main_concepts_file(ordered_xml_filenames[idx]) \/ numeric_tree = <<>>
    /\ LET xml_filename == ordered_xml_filenames[idx]
           name == FilenameGroup1(xml_filename)
           version == FilenameGroup2(xml_filename)
           is_main == re_main_concepts_file(xml_filename)
           numerics == SelectSeq(concept_xml_filenames, re_numeric_concepts)
           loaded == LoadConceptRecords(tree)
           merged == IF is_main
                     THEN MergeNumeric([concepts |-> loaded.concepts, ok |-> TRUE],
                                       FindAll(numeric_tree, "concept_numeric"))
                     ELSE [concepts |-> loaded.concepts, ok |-> TRUE]
           l == [loaded EXCEPT !.concepts = merged.concepts]
           built == build_concept_csv(l, ref_dicts)
           header_data == HeaderData(built.csv, version)
           locals == [NoConv EXCEPT !.xml_filename = xml_filename, !.tree = tree,
                                    !.numeric_concepts = IF is_main /\ numerics # <<>>
                                                         THEN numerics[1] ELSE <<>>,
                                    !.numeric_tree = IF is_main THEN numeric_tree ELSE <<>>,
                                    !.concepts = l.concepts,
                                    !.descriptions = l.descriptions,
                                    !.answers = l.answers, !.names = l.names,
                                    !.ref_maps = l.ref_maps, !.sets = l.sets]
       IN IF ~re_concepts_filename(xml_filename) \/ xml_filename \notin scratch
          THEN \* matches is None (line 324), or et.parse finds no file (line 327)
               /\ pc' = "error"
               /\ UNCHANGED <<scratch, csv_output, idx, conv>>
          ELSE IF is_main /\ (numerics = <<>> \/ numerics[1] \notin scratch \/ ~merged.ok)
          THEN \* IndexError (line 362), no file (line 364) or KeyError (line 367)
               /\ pc' = "error"
               /\ UNCHANGED <<scratch, csv_output, idx, conv>>
          ELSE IF ~built.ok
          THEN \* KeyError in build_concept_csv, after line 370
               /\ pc' = "error"
               /\ scratch' = IF is_main THEN scratch \ {numerics[1]} ELSE scratch
               /\ conv' = locals
               /\ UNCHANGED <<csv_output, idx>>
          ELSE /\ pc' = pc
               /\ scratch' = (IF is_main THEN scratch \ {numerics[1]} ELSE scratch)
                             \ {xml_filename}
               /\ csv_output' = csv_output \cup {name \o <<".csv">>}
               /\ conv' = [locals EXCEPT !.concept_csv = built.csv,
                                         !.header_data = header_data,
                                         !.rows = CsvRows(built.csv, header_data)]
               /\ idx' = idx + 1
    /\ UNCHANGED <<namelist, use_pre_2x, mds_jar_filenames, concept_xml_filenames,
                   mds_output, ref_dicts, batch, ordered_xml_filenames>>

\* The return of convert_concept_xml_to_csv: main() ends.
Finish ==
    /\ pc = "convert_concept_xml_to_csv"
    /\ idx > Len(ordered_xml_filenames)
    /\ pc' = "done"
    /\ UNCHANGED <<namelist, use_pre_2x, mds_jar_filenames, concept_xml_filenames,
                   scratch, mds_output, csv_output, ref_dicts, idx, batch,
                   ordered_xml_filenames, conv>>

(***************************************************************************)
(* Inputs: archives and the contents of their files                        *)
(***************************************************************************)
Jar == <<"lib/", "referencemetadata-api-", "2.9.0", ".jar">>
F_Concepts == <<"Reference_Application_", "Concepts", "-", "20", ".xml">>
F_Diagnoses == <<"Reference_Application_", "Diagnoses", "-", "13", ".xml">>
F_OrderEntry == <<"Reference_Application_", "Order_Entry_", "and_Allergies_Concepts",
                  "-", "17", ".xml">>
F_Drugs == <<"Reference_Application_", "Drugs", "-", "4", ".xml">>
F_NumericPre == <<"Reference_Application_", "Numeric_Concepts", "-", "20", "-pre2.x", ".xml">>
F_NumericPost == <<"Reference_Application_", "Numeric_Concepts", "-", "20", "-2.x", ".xml">>

XmlFiles == {F_Concepts, F_Diagnoses, F_OrderEntry, F_Drugs, F_NumericPre, F_NumericPost}

\* The largest number of concept XML files in an archive.
MaxFiles == 3
\* The largest number of reference elements in a file of a two-batch archive.
MaxRefEls == 2
\* The largest number of reference elements in the file of a one-batch archive.
MaxDocEls == 3
\* The largest number of concept elements in a file.
MaxConceptEls == 4
\* The largest number of elements in the numeric-concepts file.
MaxNumericEls == 1

\* All sequences over pool of at most max elements.
SeqsUpTo(pool, max) == UNION {[1..n -> pool] : n \in 0..max}

Injective(s) == \A i, j \in 1..Len(s) : s[i] = s[j] => i = j

\* Archives: the support library and up to MaxFiles distinct concept XML files.
Archives == {<<Jar>> \o fs : fs \in {s \in SeqsUpTo(XmlFiles, MaxFiles) : Injective(s)}}

\* The entries of the support library.
JarNamelists ==
    { << <<"Reference_Application_Module", ".zip">> >>,
      << <<"META-INF/", "MANIFEST.MF">>, <<"Reference_Application_Module", ".zip">>,
         <<"Reference_Application_Roles", ".zip">> >> }

XmlElement(tag, attrib) == [tag |-> tag, attrib |-> attrib]

DatatypeA ==
    XmlElement("concept_datatype",
               << <<"concept_datatype_id", S("1")>>, <<"name", S("Numeric")>>,
                  <<"date_created", S("2004-08-12")>>, <<"retired", S("false")>>,
                  <<"uuid", S("dt-a")>> >>)
ClassA ==
    XmlElement("concept_class",
               << <<"concept_class_id", S("1")>>, <<"name", S("Test")>>,
                  <<"date_created", S("2004-08-12")>>, <<"date_changed", S("2010-01-01")>>,
                  <<"uuid", S("cl-a")>> >>)
MapTypeA ==
    XmlElement("concept_map_type",
               << <<"concept_map_type_id", S("1")>>, <<"name", S("SAME-AS")>>,
                  <<"date_created", S("2004-08-12")>>, <<"date_changed", S("2010-01-01")>>,
                  <<"uuid", S("mt-a")>> >>)
MapTypeB ==
    XmlElement("concept_map_type",
               << <<"concept_map_type_id", S("2")>>, <<"name", S("NARROWER-THAN")>>,
                  <<"date_created", S("2005-09-13")>>, <<"uuid", S("mt-b")>> >>)
SourceA ==
    XmlElement("concept_reference_source",
               << <<"concept_source_id", S("1")>>, <<"name", S("CIEL")>>,
                  <<"hl7_code", S("CIEL")>>, <<"date_created", S("2004-08-12")>>,
                  <<"uuid", S("src-a")>> >>)
SourceB ==
    XmlElement("concept_reference_source",
               << <<"concept_source_id", S("1")>>, <<"name", S("SNOMED CT")>>,
                  <<"date_created", S("2005-09-13")>>, <<"uuid", S("src-b")>> >>)
TermA ==
    XmlElement("concept_reference_term",
               << <<"concept_reference_term_id", S("1")>>, <<"concept_source_id", S("1")>>,
                  <<"code", S("1000")>>, <<"date_created", S("2004-08-12")>>,
                  <<"date_changed", S("2010-01-01")>>, <<"uuid", S("t-a")>> >>)
TermB ==
    XmlElement("concept_reference_term",
               << <<"concept_reference_term_id", S("2")>>, <<"concept_source_id", S("1")>>,
                  <<"code", S("2000")>>, <<"date_created", S("2005-09-13")>>,
                  <<"uuid", S("t-b")>> >>)
TermC ==
    XmlElement("concept_reference_term",
               << <<"concept_reference_term_id", S("1")>>, <<"concept_source_id", S("1")>>,
                  <<"code", S("3000")>>, <<"date_created", S("2006-10-14")>>,
                  <<"date_changed", S("2011-02-02")>>, <<"uuid", S("t-c")>> >>)

\* A second datatype element carrying the uuid of DatatypeA.
DatatypeB ==
    XmlElement("concept_datatype",
               << <<"concept_datatype_id", S("1")>>, <<"name", S("Text")>>,
                  <<"date_created", S("2005-09-13")>>, <<"uuid", S("dt-a")>> >>)

\* A term of a source that no file holds.
TermD ==
    XmlElement("concept_reference_term",
               << <<"concept_reference_term_id", S("1")>>, <<"concept_source_id", S("9")>>,
                  <<"code", S("4000")>>, <<"date_created", S("2007-11-15")>>,
                  <<"uuid", S("t-d")>> >>)

RefPool == {DatatypeA, DatatypeB, ClassA, MapTypeA, MapTypeB, SourceA, SourceB,
            TermA, TermB, TermC, TermD}

ConceptA ==
    XmlElement("concept",
               << <<"concept_id", S("1")>>, <<"retired", S("false")>>,
                  <<"datatype_id", S("1")>>, <<"class_id", S("1")>>,
                  <<"creator", S("1")>>, <<"uuid", S("u1")>> >>)
ConceptB ==
    XmlElement("concept",
               << <<"concept_id", S("2")>>, <<"uuid", S("u2")>>,
                  <<"datatype_id", S("1")>> >>)
\* A concept whose uuid attribute is the empty string.
ConceptC ==
    XmlElement("concept", << <<"concept_id", S("3")>>, <<"uuid", <<>> >> >>)
DescriptionA ==
    XmlElement("concept_description",
               << <<"concept_id", S("1")>>, <<"description", S("desc")>>,
                  <<"locale", S("en")>>, <<"uuid", S("d-a")>> >>)
AnswerA ==
    XmlElement("concept_answer",
               << <<"concept_id", S("1")>>, <<"answer_concept", S("1")>>,
                  <<"uuid", S("a-a")>> >>)
AnswerB ==
    XmlElement("concept_answer",
               << <<"concept_id", S("1")>>, <<"answer_concept", S("2")>>,
                  <<"uuid", S("a-b")>> >>)
AnswerC ==
    XmlElement("concept_answer",
               << <<"concept_id", S("1")>>, <<"answer_concept", S("3")>>,
                  <<"uuid", S("a-c")>> >>)
NameA ==
    XmlElement("concept_name",
               << <<"concept_id", S("1")>>, <<"name", S("Name")>>, <<"locale", S("en")>>,
                  <<"concept_name_type", S("FULLY_SPECIFIED")>>, <<"uuid", S("n-a")>> >>)
NameB ==
    XmlElement("concept_name",
               << <<"concept_id", S("2")>>, <<"name", S("Nm")>>, <<"locale", S("en")>>,
                  <<"concept_name_type", S("SHORT")>>, <<"uuid", S("n-b")>> >>)
RefMapA ==
    XmlElement("concept_reference_map",
               << <<"concept_id", S("1")>>, <<"concept_reference_term_id", S("1")>>,
                  <<"uuid", S("m-a")>> >>)
SetA ==
    XmlElement("concept_set",
               << <<"concept_set", S("1")>>, <<"concept_id", S("2")>>,
                  <<"uuid", S("s-a")>> >>)

\* A second concept element carrying the concept_id of ConceptA.
ConceptD ==
    XmlElement("concept",
               << <<"concept_id", S("1")>>, <<"uuid", S("u4")>>,
                  <<"datatype_id", S("1")>> >>)

ConceptPool == {ConceptA, ConceptB, ConceptC, DescriptionA, AnswerA, AnswerB, AnswerC,
                NameA, NameB, RefMapA, SetA}

NumericA ==
    XmlElement("concept_numeric",
               << <<"concept_id", S("1")>>, <<"hi_absolute", S("250")>>,
                  <<"hi_critical", S("180")>>, <<"units", S("mmHg")>>,
                  <<"precise", S("1")>> >>)
NumericB ==
    XmlElement("concept_numeric",
               << <<"concept_id", S("2")>>, <<"low_normal", S("60")>>,
                  <<"allow_decimal", S("0")>>, <<"precise", S("1")>> >>)

NumericPool == {NumericA, NumericB}

\* The position of a tag among the findall calls of the two loops
\* (lines 417-450 and 329-358).
TagRank(tag) ==
    CASE tag = "concept_datatype" -> 1
      [] tag = "concept_class" -> 2
      [] tag = "concept_map_type" -> 3
      [] tag = "concept_reference_source" -> 4
      [] tag = "concept_reference_term" -> 5
      [] tag = "concept" -> 1
      [] tag = "concept_description" -> 2
      [] tag = "concept_answer" -> 3
      [] tag = "concept_name" -> 4
      [] tag = "concept_reference_map" -> 5
      [] tag = "concept_set" -> 6
      [] OTHER -> 0

\* The files of at most max elements of pool.  A file is read only through
\* findall(tag), which keeps the order of the elements of one tag and ignores
\* how the tags interleave; one file stands for all those with the same
\* findall results: the one that lists its elements tag by tag.
TreesOf(pool, max) ==
    {t \in SeqsUpTo(pool, max) :
        \A i \in 1..Len(t) : i < Len(t) => TagRank(t[i].tag) <= TagRank(t[i + 1].tag)}

RefTrees == TreesOf(RefPool, MaxRefEls)
DocTrees == TreesOf(RefPool, MaxDocEls)
ConceptTrees == TreesOf(ConceptPool, MaxConceptEls)
NumericTrees == SeqsUpTo(NumericPool, MaxNumericEls)

\* One file of each kind with the records the other refers to.
SmallRefTrees == {<<>>, <<DatatypeA, ClassA, SourceA, TermA>>}
SmallConceptTrees == {<<>>, <<ConceptA, ConceptB, DescriptionA, AnswerB, RefMapA>>,
                      <<ConceptA, ConceptD>>}
SmallNumericTrees == {<<>>, <<NumericA>>}

(***************************************************************************)
(* Specifications                                                          *)
(***************************************************************************)
NextWith(jar_namelists, ref_trees, concept_trees, numeric_trees) ==
    \/ ExtractFilenamesAndMdsJar
    \/ \E jar_namelist \in jar_namelists : ExtractMdsPackages(jar_namelist)
    \/ ExtractConceptXmlFiles
    \/ PackageSkipNumeric
    \/ \E tree \in ref_trees : PackageBatch(tree)
    \/ BeginConvert
    \/ \E tree \in concept_trees, numeric_tree \in numeric_trees :
           ConvertBatch(tree, numeric_tree)
    \/ Finish

\* Any archive, files of few shapes.
Init == InitWith(Archives, {0, 1})
Next == NextWith(JarNamelists, SmallRefTrees, SmallConceptTrees, SmallNumericTrees)
Spec == Init /\ [][Next]_vars

\* An archive of two batches, any reference records in its files.
PkgArchives == { <<Jar, F_Concepts, F_NumericPost, F_Diagnoses>> }
InitPkg == InitWith(PkgArchives, {0})
NextPkg == NextWith({<<>>}, RefTrees, SmallConceptTrees, SmallNumericTrees)
SpecPkg == InitPkg /\ [][NextPkg]_vars

\* An archive of one batch, any reference records in its file.
DocArchives == { <<Jar, F_NumericPost, F_Concepts>> }
InitDoc == InitWith(DocArchives, {0})
NextDoc == NextWith({<<>>}, DocTrees, SmallConceptTrees, SmallNumericTrees)
SpecDoc == InitDoc /\ [][NextDoc]_vars

\* Two archives of one batch each, any concept records in their files.
CsvArchives == { <<Jar, F_Concepts, F_NumericPost>>, <<Jar, F_Diagnoses>> }
InitCsv == InitWith(CsvArchives, {0})
NextCsv == NextWith({<<>>}, SmallRefTrees, ConceptTrees, NumericTrees)
SpecCsv == InitCsv /\ [][NextCsv]_vars

(***************************************************************************)
(* Properties of the reference dictionary and of the package documents     *)
(***************************************************************************)
\* The state is one in which the loop of create_concept_metadata_mds_package
\* is about to process a file.
AtPackageBatch ==
    /\ pc = "create_concept_metadata_mds_package"
    /\ idx <= Len(concept_xml_filenames)
    /\ ~re_numeric_concepts(concept_xml_filenames[idx])

\* C1: for each of the five dictionary kinds, a surrogate id that is mapped
\* stays mapped and keeps the value it has, whatever records are processed
\* next.
C1_MappedValuesKept ==
    [][\A k \in 1..Len(ref_dicts) : \A e \in 1..Len(ref_dicts[k][2]) :
          LET kind == ref_dicts[k][1]
              id == ref_dicts[k][2][e][1]
          IN /\ Has(ref_dicts', kind)
             /\ Has(Get(ref_dicts', kind), id)
             /\ Get(Get(ref_dicts', kind), id) = ref_dicts[k][2][e][2]]_vars

\* The kinds whose elements are skipped when their id is in the dictionary:
\* <<dictionary kind, class name, id attribute>>.
DedupKinds ==
    << <<"Datatype", "ConceptDatatype", "concept_datatype_id">>,
       <<"Class", "ConceptClass", "concept_class_id">>,
       <<"MapType", "ConceptMapType", "concept_map_type_id">>,
       <<"ReferenceTerm", "ConceptReferenceTerm", "concept_reference_term_id">> >>

\* The surrogate ids of the items of one class in a header.xml document: the
\* text of the id child of every Item whose classname child names the class.
HeaderItemIds(doc, classname) ==
    {doc[m].text : m \in {n \in 1..Len(doc) :
                            /\ doc[n].tag = "id"
                            /\ n < Len(doc)
                            /\ doc[n + 1].tag = "classname"
                            /\ doc[n + 1].text = S(OrgOpenmrs(classname))}}

\* The surrogate ids of the elements of one class in a metadata.xml document.
MetadataItemIds(doc, classname, id_attr) ==
    {doc[m].text : m \in {n \in 1..Len(doc) :
                            /\ doc[n].tag = camel_case(id_attr)
                            /\ doc[n].parent # 0
                            /\ doc[doc[n].parent].tag = OrgOpenmrs(classname)}}

\* C2: when a batch is processed, no Datatype, Class, MapType or ReferenceTerm
\* whose surrogate id the dictionary already held before the batch appears
\* among the items of the batch's header.xml or in the list of its
\* metadata.xml.
C2_KnownIdsNotEmitted ==
    [][AtPackageBatch =>
          \A k \in 1..Len(DedupKinds) :
              LET kind == DedupKinds[k][1]
                  known == IF Has(ref_dicts, kind) THEN KeySet(Get(ref_dicts, kind)) ELSE {}
              IN /\ HeaderItemIds(batch'.header_xml_content, DedupKinds[k][2])
                        \cap known = {}
                 /\ MetadataItemIds(batch'.metadata_xml_content, DedupKinds[k][2],
                                    DedupKinds[k][3]) \cap known = {}]_vars

\* The second batch has been packaged; its file holds a datatype that was
\* passed over (it is not among the records loaded, so its id was in the
\* dictionary), next to a map type that was emitted.
C2_Witness ==
    /\ batch.xml_filename = F_Diagnoses
    /\ batch.header_xml_content # <<>>
    /\ \E i \in 1..Len(batch.tree) :
           /\ batch.tree[i].tag = "concept_datatype"
           /\ ~Has(batch.datatypes, ElGet(batch.tree[i], "uuid"))
           /\ Has(Get(ref_dicts, "Datatype"), ElGet(batch.tree[i], "concept_datatype_id"))
    /\ batch.map_types # EmptyDict
    /\ HeaderItemIds(batch.header_xml_content, "ConceptMapType") # {}

\* C3: after the first batch of a run, the ReferenceTerm entry of
\* every surrogate id is "<Source.name>:<code>" with the code of the first
\* term record of the file carrying that id, and the name the Source
\* dictionary holds for that record's concept_source_id (the sources of the
\* batch are all in the dictionary before its first term is added).
C3_TermValueOfFirstRecord ==
    batch.header_xml_content # <<>> =>
        LET terms == FindAll(batch.tree, "concept_reference_term")
        IN \A i \in 1..Len(terms) :
               (\A j \in 1..(i - 1) :
                    ElGet(terms[j], "concept_reference_term_id")
                        # ElGet(terms[i], "concept_reference_term_id"))
               => Get(Get(ref_dicts, "ReferenceTerm"),
                      ElGet(terms[i], "concept_reference_term_id"))
                  = Get(Get(ref_dicts, "Source"), ElGet(terms[i], "concept_source_id"))
                    \o <<":">> \o ElGet(terms[i], "code")

\* The records loaded for the class a header.xml classname text names.
BatchRecords(b, classname_text) ==
    CASE classname_text = S("org.openmrs.ConceptDatatype") -> b.datatypes
      [] classname_text = S("org.openmrs.ConceptClass") -> b.classes
      [] classname_text = S("org.openmrs.ConceptMapType") -> b.map_types
      [] classname_text = S("org.openmrs.ConceptSource") -> b.ref_sources
      [] classname_text = S("org.openmrs.ConceptReferenceTerm") -> b.ref_terms

\* C5: in header.xml the dateChanged child of every item holds the record's
\* own date_changed when the record has one, and its date_created only when
\* it has none, whatever records precede it.
C5_DateChangedOfRecord ==
    LET doc == batch.header_xml_content
    IN \A n \in 1..Len(doc) :
           doc[n].tag = "org.openmrs.module.metadatasharing.Item" =>
               LET rec == Get(BatchRecords(batch, doc[n + 2].text),
                              Get(doc[n].attrib, "uuid"))
               IN /\ doc[n + 3].tag = "dateChanged"
                  /\ doc[n + 3].text = IF Has(rec, "date_changed")
                                       THEN Get(rec, "date_changed")
                                       ELSE Get(rec, "date_created")

\* C6: in metadata.xml an org.openmrs.ConceptReferenceTerm element has no
\* uuid child and no conceptSourceId child, and exactly one lower-camel-case
\* child for every other attribute of its record.
C6_TermChildren ==
    LET doc == batch.metadata_xml_content
    IN \A n \in 1..Len(doc) :
           doc[n].tag = "org.openmrs.ConceptReferenceTerm" =>
               LET rec == Get(batch.ref_terms, Get(doc[n].attrib, "uuid"))
                   kids == {m \in 1..Len(doc) : doc[m].parent = n}
               IN /\ \A m \in kids : doc[m].tag \notin {"uuid", "conceptSourceId"}
                  /\ \A a \in 1..Len(rec) :
                         rec[a][1] \notin {"uuid", "concept_source_id"} =>
                             Cardinality({m \in kids :
                                             /\ doc[m].tag = camel_case(rec[a][1])
                                             /\ doc[m].text = rec[a][2]}) = 1

\* The elements of a document that carry an id attribute, in document order.
IdElements(doc) == SelectSeq(doc, LAMBDA el : Has(el.attrib, "id"))

\* C7: in the header.xml and in the metadata.xml of every batch, the j-th
\* element carrying an id attribute, in document order, carries the id j.
C7_IdsCountFromOne ==
    \A doc \in {batch.header_xml_content, batch.metadata_xml_content} :
        LET ids == IdElements(doc)
        IN \A j \in 1..Len(ids) : Get(ids[j].attrib, "id") = Str(j)

\* The second batch has been packaged after a first one that emitted items;
\* its metadata.xml holds an expanded conceptSource, which takes an id below
\* a term, and its header.xml two items.
C7_Witness ==
    /\ batch.xml_filename = F_Diagnoses
    /\ Has(ref_dicts, "Datatype")
    /\ Get(ref_dicts, "Datatype") # EmptyDict
    /\ batch.datatypes = EmptyDict
    /\ \E n \in 1..Len(batch.metadata_xml_content) :
           /\ batch.metadata_xml_content[n].tag = "conceptSource"
           /\ Has(batch.metadata_xml_content[n].attrib, "id")
    /\ Len(IdElements(batch.header_xml_content)) = 9

(***************************************************************************)
(* Properties of the CSV files                                             *)
(***************************************************************************)
\* C4: the row of every concept holds, for every pass-through attribute the
\* concept carries, the attribute's value under its header name (the value of
\* the later attribute when two attributes share a header name).
C4_PassThroughColumns ==
    \A i \in 1..Len(conv.concept_csv) :
        LET row == conv.concept_csv[i][2]
            rec == Get(conv.concepts, conv.concept_csv[i][1])
        IN \A a \in 1..Len(rec) :
               Has(header_lookup, rec[a][1]) =>
                   LET column == Get(header_lookup, rec[a][1])
                   IN /\ Has(row, column)
                      /\ (\A b \in (a + 1)..Len(rec) :
                              Has(header_lookup, rec[b][1])
                              => Get(header_lookup, rec[b][1]) # column)
                         => Get(row, column) = rec[a][2]

\* Some pattern of concept_processing_order matches the file name.
IsPriority(f) == \E p \in 1..NumPriorities : PriorityMatch(p, f)

\* C8: the files are denormalized in the order concepts, diagnoses,
\* order-entry, then every other non-numeric file in archive order; at the
\* end of the run every non-numeric file has its CSV.
C8_EveryBatchDenormalized ==
    /\ pc \in {"convert_concept_xml_to_csv", "done"} =>
           ordered_xml_filenames =
               SelectSeq(concept_xml_filenames, re_main_concepts_file)
               \o SelectSeq(concept_xml_filenames, re_diagnoses)
               \o SelectSeq(concept_xml_filenames, re_order_entry)
               \o SelectSeq(concept_xml_filenames,
                         LAMBDA f : ~IsPriority(f) /\ ~re_numeric_concepts(f))
    /\ pc = "done" =>
           \A i \in 1..Len(concept_xml_filenames) :
               ~re_numeric_concepts(concept_xml_filenames[i]) =>
                   FilenameGroup1(concept_xml_filenames[i]) \o <<".csv">> \in csv_output

RECURSIVE AllRowKeys(_)
\* The column keys of the rows of concept_csv, row after row.
AllRowKeys(csv) == IF csv = <<>> THEN <<>> ELSE Keys(csv[1][2]) \o AllRowKeys(Tail(csv))

\* The position of the first occurrence of x in s.
FirstIndex(s, x) == CHOOSE i \in 1..Len(s) : s[i] = x /\ \A j \in 1..(i - 1) : s[j] # x

\* C9: the header of every CSV written ends with "_version:<version>" and
\* "_order:0"; before them it holds every column key of every row, each once,
\* ordered by first occurrence over the rows in iteration order.
C9_HeaderIsOrderedUnion ==
    conv.header_data # <<>> =>
        LET h == conv.header_data
            n == Len(h)
            columns == SubSeq(h, 1, n - 2)
            keys == AllRowKeys(conv.concept_csv)
        IN /\ n >= 2
           /\ h[n - 1] = <<"_version:">> \o FilenameGroup2(conv.xml_filename)
           /\ h[n] = S("_order:0")
           /\ Injective(columns)
           /\ Range(columns) = Range(keys)
           /\ \A i, j \in 1..Len(columns) :
                  i < j => FirstIndex(keys, columns[i]) < FirstIndex(keys, columns[j])

\* A CSV was written whose second row repeats a key of the first and brings
\* a key of its own.
C9_Witness ==
    /\ conv.header_data # <<>>
    /\ Len(conv.concept_csv) >= 2
    /\ KeySet(conv.concept_csv[1][2]) \cap KeySet(conv.concept_csv[2][2]) # {}
    /\ KeySet(conv.concept_csv[2][2]) \ KeySet(conv.concept_csv[1][2]) # {}
    /\ KeySet(conv.concept_csv[1][2]) \ KeySet(conv.concept_csv[2][2]) # {}

RECURSIVE Join(_)
\* ";".join(strs)
Join(strs) ==
    IF strs = <<>> THEN <<>>
    ELSE IF Len(strs) = 1 THEN strs[1]
    ELSE strs[1] \o <<";">> \o Join(Tail(strs))

\* The uuids of the answer-target concepts of the Answer records owned by the
\* concept `key`, in answer iteration order.
AnswerTargets(c, key) ==
    LET owned == SelectSeq(c.answers, LAMBDA a : Get(a[2], "concept_id") = key)
    IN [i \in 1..Len(owned) |->
           Get(Get(c.concepts, Get(owned[i][2], "answer_concept")), "uuid")]

\* C10, as stated: the Answers column of a concept owning Answer records is
\* the ";"-join of the uuids of their target concepts, in answer iteration
\* order; a concept owning none has no Answers column.
C10_AnswersJoined ==
    \A i \in 1..Len(conv.concept_csv) :
        LET row == conv.concept_csv[i][2]
            targets == AnswerTargets(conv, conv.concept_csv[i][1])
        IN IF targets = <<>> THEN ~Has(row, S("Answers"))
           ELSE Has(row, S("Answers")) /\ Get(row, S("Answers")) = Join(targets)

\* C10, amended: the Answers column of a concept owning Answer records is the
\* ";"-join of the uuids of their target concepts, in answer iteration order,
\* without the ";" it ends with; a concept owning none has no Answers column.
C10_AnswersJoinedStripped ==
    \A i \in 1..Len(conv.concept_csv) :
        LET row == conv.concept_csv[i][2]
            targets == AnswerTargets(conv, conv.concept_csv[i][1])
        IN IF targets = <<>> THEN ~Has(row, S("Answers"))
           ELSE Has(row, S("Answers"))
                /\ Get(row, S("Answers")) = Rstrip(Join(targets), ";")

\* A CSV was written with a concept owning two Answer records whose targets
\* are two concepts, the second with an empty uuid, next to a concept that
\* owns none.
C10_Witness ==
    /\ conv.header_data # <<>>
    /\ \E i \in 1..Len(conv.concept_csv) :
           LET targets == AnswerTargets(conv, conv.concept_csv[i][1])
           IN /\ Len(targets) = 2
              /\ targets[1] # <<>>
              /\ targets[2] = <<>>
              /\ Get(conv.concept_csv[i][2], S("Answers")) = targets[1]
    /\ \E i \in 1..Len(conv.concept_csv) :
           AnswerTargets(conv, conv.concept_csv[i][1]) = <<>>

(***************************************************************************)
(* Properties of a whole run                                               *)
(***************************************************************************)
\* C11: when the archive holds both a pre-2.x and a post-2.x numeric-concepts
\* file, the file of the era the flag does not select is never in the batch
\* list, never extracted and never parsed, and the numeric file merged into
\* the main-concepts batch is the one of the selected era.
C11_OnlySelectedEra ==
    (F_NumericPre \in Range(namelist) /\ F_NumericPost \in Range(namelist)) =>
        LET excluded == IF use_pre_2x = 1 THEN F_NumericPost ELSE F_NumericPre
            selected == IF use_pre_2x = 1 THEN F_NumericPre ELSE F_NumericPost
        IN /\ excluded \notin Range(concept_xml_filenames)
           /\ excluded \notin Range(ordered_xml_filenames)
           /\ excluded \notin scratch
           /\ batch.xml_filename # excluded
           /\ conv.xml_filename # excluded
           /\ conv.numeric_concepts \in {<<>>, selected}

\* A run with the pre-2.x flag on an archive with both numeric files has
\* merged the attributes of the pre-2.x file into a concept and ended.
C11_Witness ==
    /\ pc = "done"
    /\ use_pre_2x = 1
    /\ F_NumericPre \in Range(namelist)
    /\ F_NumericPost \in Range(namelist)
    /\ conv.numeric_concepts = F_NumericPre
    /\ conv.numeric_tree # <<>>
    /\ \E i \in 1..Len(conv.concepts) : Has(conv.concepts[i][2], "hi_absolute")

\* The name of the package written for a batch file (line 413).
MdsFilename(f) == FilenameGroup1(f) \o <<"-">> \o FilenameGroup2(f) \o <<".zip">>

\* The Source dictionary, empty while build_ref_dicts has not created it.
SourceDict == IF Has(ref_dicts, "Source") THEN Get(ref_dicts, "Source") ELSE EmptyDict

\* The term record's concept_source_id is a key of the Source dictionary.
SourceKnown(rec) ==
    Has(rec, "concept_source_id") /\ Has(SourceDict, Get(rec, "concept_source_id"))

\* C12: when the terms loaded for a batch include one whose concept_source_id
\* the Source dictionary lacks, the run has stopped with an error at that
\* batch: no document was built and no package was written for it or for a
\* later file, and the ReferenceTerm dictionary holds for that term's id
\* either nothing or the full "<name>:<code>" of an earlier term of the batch.
C12_MissingSourceAborts ==
    \A i \in 1..Len(batch.ref_terms) :
        ~SourceKnown(batch.ref_terms[i][2]) =>
            /\ pc = "error"
            /\ batch.header_xml_content = <<>>
            /\ batch.metadata_xml_content = <<>>
            /\ \A k \in idx..Len(concept_xml_filenames) :
                   ~re_numeric_concepts(concept_xml_filenames[k])
                   => MdsFilename(concept_xml_filenames[k]) \notin mds_output
            /\ LET id == Get(batch.ref_terms[i][2], "concept_reference_term_id")
                   terms == IF Has(ref_dicts, "ReferenceTerm")
                            THEN Get(ref_dicts, "ReferenceTerm") ELSE EmptyDict
               IN Has(terms, id) =>
                      \E j \in 1..(i - 1) :
                          LET rec == batch.ref_terms[j][2]
                          IN /\ SourceKnown(rec)
                             /\ Get(rec, "concept_reference_term_id") = id
                             /\ Get(terms, id) = Get(SourceDict, Get(rec, "concept_source_id"))
                                                 \o <<":">> \o Get(rec, "code")

\* The second batch holds a new term of a source the dictionary lacks, while
\* the dictionary holds another source; the run stopped there, the first
\* batch's package being written.
C12_Witness ==
    /\ pc = "error"
    /\ batch.xml_filename = F_Diagnoses
    /\ SourceDict # EmptyDict
    /\ \E i \in 1..Len(batch.ref_terms) : ~SourceKnown(batch.ref_terms[i][2])
    /\ MdsFilename(F_Concepts) \in mds_output

\* Every record of `loaded` is the attribute bag of the first element of the
\* file with the record's key.
FirstElementLoaded(tree, tag, key_attr, loaded) ==
    LET els == FindAll(tree, tag)
    IN \A r \in 1..Len(loaded) :
           \E i \in 1..Len(els) :
               /\ ElGet(els[i], key_attr) = loaded[r][1]
               /\ \A j \in 1..(i - 1) : ElGet(els[j], key_attr) # loaded[r][1]
               /\ loaded[r][2] = els[i].attrib

\* C13: of the elements of a file that carry one identifying key, the record
\* loaded is the attribute bag of the first, for the six concept entity types
\* and for the five reference kinds.
C13_FirstElementWins ==
    /\ conv.numeric_tree = <<>> =>
           FirstElementLoaded(conv.tree, "concept", "concept_id", conv.concepts)
    /\ FirstElementLoaded(conv.tree, "concept_description", "uuid", conv.descriptions)
    /\ FirstElementLoaded(conv.tree, "concept_answer", "uuid", conv.answers)
    /\ FirstElementLoaded(conv.tree, "concept_name", "uuid", conv.names)
    /\ FirstElementLoaded(conv.tree, "concept_reference_map", "uuid", conv.ref_maps)
    /\ FirstElementLoaded(conv.tree, "concept_set", "uuid", conv.sets)
    /\ FirstElementLoaded(batch.tree, "concept_datatype", "uuid", batch.datatypes)
    /\ FirstElementLoaded(batch.tree, "concept_class", "uuid", batch.classes)
    /\ FirstElementLoaded(batch.tree, "concept_map_type", "uuid", batch.map_types)
    /\ FirstElementLoaded(batch.tree, "concept_reference_source", "uuid", batch.ref_sources)
    /\ FirstElementLoaded(batch.tree, "concept_reference_term", "uuid", batch.ref_terms)

\* The org.openmrs.ConceptReferenceTerm elements of a metadata.xml document.
TermElements(doc) == {n \in 1..Len(doc) : doc[n].tag = "org.openmrs.ConceptReferenceTerm"}

\* The concept_source_id of the record a term element was built from.
TermSourceId(b, n) ==
    Get(Get(b.ref_terms, Get(b.metadata_xml_content[n].attrib, "uuid")), "concept_source_id")

\* The conceptSource children of element n.
ConceptSourceChildren(doc, n) ==
    {m \in 1..Len(doc) : doc[m].parent = n /\ doc[m].tag = "conceptSource"}

\* C14: in the metadata.xml of every batch each term element has exactly one
\* conceptSource child.  Below the first term of the document with a given
\* source id it is expanded: it has an id, resolves to
\* org.openmrs.ConceptSource, carries the uuid of a source of that id and a
\* child per other attribute of that source.  Below a later term it carries
\* only a reference to the id of that expanded element.
C14_OneConceptSourcePerTerm ==
    LET doc == batch.metadata_xml_content
    IN \A n \in TermElements(doc) :
           LET src_id == TermSourceId(batch, n)
               earlier == {k \in TermElements(doc) : k < n /\ TermSourceId(batch, k) = src_id}
           IN /\ Cardinality(ConceptSourceChildren(doc, n)) = 1
              /\ \A m \in ConceptSourceChildren(doc, n) :
                     IF earlier = {}
                     THEN /\ Has(doc[m].attrib, "id")
                          /\ Has(doc[m].attrib, "resolves-to")
                          /\ Get(doc[m].attrib, "resolves-to") = S("org.openmrs.ConceptSource")
                          /\ \E s \in 1..Len(batch.ref_sources) :
                                 LET src == batch.ref_sources[s][2]
                                 IN /\ Get(src, "concept_source_id") = src_id
                                    /\ Has(doc[m].attrib, "uuid")
                                    /\ Get(doc[m].attrib, "uuid") = Get(src, "uuid")
                                    /\ \A a \in 1..Len(src) :
                                           src[a][1] # "uuid" =>
                                               \E c \in 1..Len(doc) :
                                                   /\ doc[c].parent = m
                                                   /\ doc[c].tag = camel_case(src[a][1])
                                                   /\ doc[c].text = src[a][2]
                     ELSE \E k \in earlier :
                              /\ \A j \in earlier : k <= j
                              /\ \E e \in ConceptSourceChildren(doc, k) :
                                     /\ Has(doc[e].attrib, "id")
                                     /\ doc[m].attrib =
                                            << <<"reference", Get(doc[e].attrib, "id")>> >>

\* C15: at the end of a run without error no extracted concept XML file is
\* left in the output directory, and a batch file is gone from it only when
\* its CSV has been written.
C15_ScratchFilesDeleted ==
    /\ pc = "done" =>
           \A i \in 1..Len(concept_xml_filenames) : concept_xml_filenames[i] \notin scratch
    /\ pc \in {"convert_concept_xml_to_csv", "done"} =>
           \A i \in 1..Len(concept_xml_filenames) :
               LET f == concept_xml_filenames[i]
               IN (~re_numeric_concepts(f) /\ f \notin scratch)
                  => FilenameGroup1(f) \o <<".csv">> \in csv_output

====
